---- MODULE Spec2Model ----
(***************************************************************************)
(* Model of the VOOG synthesizer's engine layer (synth/engine/audio_engine *)
(* .py) and of the GUI code that drives it (synth/gui/app.py).             *)
(*                                                                         *)
(* Threads:                                                                *)
(*   audio  - sounddevice's callback thread running _audio_callback        *)
(*   main   - the Tk main loop: GUI handlers, and start()/stop()           *)
(*   midi   - the MIDI input thread appending parsed messages              *)
(*                                                                         *)
(* A MIDI message is a Python dict, modelled as a record whose DOMAIN is   *)
(* the set of keys present: msg.get(k) and msg[k] differ on a missing key. *)
(* The Channel class is not part of the source at hand, so a channel is    *)
(* seen through the calls made on it: every step publishes the channel     *)
(* calls it made in lastCalls.                                             *)
(*                                                                         *)
(* Further parts, each with a specification of its own:                    *)
(*   SpecEnv, SpecEnvFair - one ADSR envelope (synth/dsp/envelope.py)      *)
(*   SpecOsc   - one Oscillator: phase and output (synth/dsp/oscillator.py)*)
(*   SpecFilter - one MoogFilter on each of the two ladder implementations *)
(*               of synth/dsp/filter.py, given the same calls              *)
(*   SpecAlloc - a channel's voice allocator over ADSR amp envelopes       *)
(*   SpecKeys  - the PC keyboard handlers of SynthGUI                      *)
(*   SpecPlay  - the PC keyboard and the on-screen keyboard together       *)
(***************************************************************************)
EXTENDS Integers, Sequences, FiniteSets

\* ------------------------------------------------------------ bounds
\* Capacity of the deque; the program uses 256, the model a capacity that
\* a few pushes can fill.
MIDI_QUEUE_SIZE == 2
\* Number of messages the MIDI thread appends in one behaviour.
MaxPush == 3
\* Number of messages appended in the specification that draws them from
\* every message shape.
MaxWide == 1

\* --------------------------------------------------------- constants
NUM_CHANNELS == 4

\* Python's None, where the other values are numbers that are not negative
None == -1

Channels == 0 .. (NUM_CHANNELS - 1)

\* cc -> (param, min, max)
CC_MAP ==
    [cc \in {71, 74} |->
        IF cc = 74 THEN [param |-> "filter.cutoff", min |-> 20, max |-> 20000]
                   ELSE [param |-> "filter.resonance", min |-> 0, max |-> 1]]

VARIABLES
    midi_queue,       \* AudioEngine.midi_queue: sequence of [seq, msg]
    stream,           \* AudioEngine._stream and the state of the stream object
    running,          \* AudioEngine._running
    dev_open,         \* an OutputStream has been constructed and not closed
    cb_pc,            \* position of the audio thread inside _audio_callback
    cb_i,             \* index of the channel the render loop is at
    cb_result,        \* how the last finished callback ended
    main_pc,          \* position of the main thread inside stop()
    stop_closed,      \* this stop() took the "stream is not None" branch
    current_channel,  \* SynthGUI.current_channel
    lastCalls,        \* channel calls made by the last step, in order
    lastDispatch,     \* queue entries handed to _process_midi by the last step
    nextSeq,          \* number of messages appended so far
    dispatched,       \* seq numbers handed to _process_midi, in order
    atBegin,          \* seq numbers in the queue when the callback began
    pushedDuring,     \* a producer appended while this callback was running
    amp_env,          \* an ADSR object (synth/dsp/envelope.py)
    ref_env,          \* a second ADSR, built with every time at least _MIN_TIME
    env_op,           \* the method last called on the envelopes
    env_from,         \* the state amp_env was in before that call
    short_renders,    \* number of renders of ShortBlock samples so far
    voices,           \* the allocator's voices: [age, amp_env]
    note_map,         \* the allocator's note -> voice index map
    global_age,       \* the allocator's age counter
    stole,            \* the last note_on took a voice that was not free
    _held_keys,       \* SynthGUI._held_keys: [key, note] in insertion order
    _pending_releases,\* keys of SynthGUI._pending_releases: a live timer each
    kbd_octave,       \* SynthGUI.kbd_octave
    key_op,           \* the keyboard handler that ran last, and on what
    _mouse_note,      \* SynthGUI._mouse_note
    mouse_pressed,    \* mouse button 1 is down, pressed over the key canvas
    on_channel,       \* per key and for the mouse: the channel its note_on
                      \* went to, while the GUI keeps the note as held
    osc,              \* an Oscillator object (synth/dsp/oscillator.py)
    osc_op,           \* the method last called on it
    osc_inc_sum,      \* the sum of the increments of the last render's input
    osc_n_samples,    \* the n_samples argument of the last render
    osc_out,          \* the buffer the last render returned
    moog,             \* a MoogFilter object per ladder implementation
    moog_op,          \* the method last called on them
    moog_samples,     \* the samples argument of the last render
    moog_cutoff_buf,  \* the cutoff_buf the last render passed to the ladder
    moog_out,         \* the array the last render returned, per implementation
    moog_renders,     \* number of renders so far
    moog_from,        \* the taps before the last call, per implementation
    moog_reset_from,  \* the taps the last reset found, per implementation
    held_samples      \* samples rendered in whole buffers since a gate_on from
                      \* idle with the gate held since; -1 outside that case

engineVars == <<stream, running, dev_open, main_pc, stop_closed>>
cbVars == <<cb_pc, cb_i, cb_result, atBegin>>
ghostQ == <<nextSeq, dispatched>>
envVars == <<amp_env, ref_env, env_op, env_from, short_renders, held_samples>>

allocVars == <<voices, note_map, global_age, stole>>

keyVars == <<_held_keys, _pending_releases, kbd_octave, key_op,
             _mouse_note, mouse_pressed, on_channel>>

oscVars == <<osc, osc_op, osc_inc_sum, osc_n_samples, osc_out>>

filterVars == <<moog, moog_op, moog_samples, moog_cutoff_buf, moog_out,
                moog_renders, moog_from, moog_reset_from>>

dspVars == <<envVars, allocVars, oscVars, filterVars>>

\* What the engine, callback and GUI steps leave alone.
otherVars == <<dspVars, keyVars>>

vars == <<midi_queue, stream, running, dev_open, cb_pc, cb_i, cb_result,
          main_pc, stop_closed, current_channel, lastCalls, lastDispatch,
          nextSeq, dispatched, atBegin, pushedDuring, otherVars>>

\* ---------------------------------------------------------- messages
ChannelFields == {0, 2, 4, -1, -5}

NoteOnMsgs ==
    {[type |-> "note_on", channel |-> c, note |-> 60, velocity |-> v] :
        c \in ChannelFields, v \in {0, 100}}
    \cup {[type |-> "note_on", note |-> 60, velocity |-> 100],
          [type |-> "note_on", channel |-> 1, note |-> 60],
          [type |-> "note_on", channel |-> 1, velocity |-> 100]}

NoteOffMsgs ==
    {[type |-> "note_off", channel |-> c, note |-> 60] : c \in {0, 2}}
    \cup {[type |-> "note_off", channel |-> 1]}

CCMsgs ==
    {[type |-> "control_change", channel |-> 1, control |-> cc, value |-> v] :
        cc \in {74, 120, 123, 7}, v \in {0, 127}}
    \cup {[type |-> "control_change", channel |-> 1, control |-> 71, value |-> 64],
          [type |-> "control_change", channel |-> 1, value |-> 64],
          [type |-> "control_change", channel |-> 1, control |-> 74]}

OtherMsgs ==
    {[type |-> "pitchwheel", channel |-> 1, pitch |-> 0],
     [type |-> "all_notes_off", channel |-> 1],
     [type |-> "set_param", channel |-> 1, path |-> "filter.cutoff", value |-> 200],
     [type |-> "set_patch", channel |-> 1, patch |-> "Bass Voog"],
     [type |-> "sysex", channel |-> 1],
     [channel |-> 1, note |-> 60]}

Msgs == NoteOnMsgs \cup NoteOffMsgs \cup CCMsgs \cup OtherMsgs

\* The messages of the specification that runs all three threads.
CoreMsgs ==
    {[type |-> "note_on", channel |-> 0, note |-> 60, velocity |-> 100],
     [type |-> "note_off", channel |-> 0, note |-> 60],
     [type |-> "note_on", channel |-> 1, note |-> 60]}

\* ------------------------------------------------------ channel calls
\* by: "audio" (_audio_callback), "gui" (a SynthGUI handler), "stop" (stop()).
Call(by, ch, op, args) ==
    [by |-> by, ch |-> ch, op |-> op, args |-> args]

\* ------------------------------------------------------------- deque
\* collections.deque(maxlen=MIDI_QUEUE_SIZE).append: a full deque discards
\* the item at the opposite end.
append(q, e) ==
    IF Len(q) >= MIDI_QUEUE_SIZE THEN Append(Tail(q), e) ELSE Append(q, e)

popleft_mut(q) == [item |-> q[Len(q)], rest |-> SubSeq(q, 1, Len(q) - 1)]

popleft(q) == [item |-> Head(q), rest |-> Tail(q)]

\* ------------------------------------------------------ _process_midi
\* The outcome of a call: the exception raised ("" for none) and the
\* channel calls made before it.
Outcome(raised, calls) == [raised |-> raised, calls |-> calls]

get(msg, key, default) == IF key \in DOMAIN msg THEN msg[key] ELSE default

\* self.channels[ch_idx] on a list of NUM_CHANNELS items: -1 is the last.
index(ch_idx) ==
    IF ch_idx >= 0 /\ ch_idx < NUM_CHANNELS THEN ch_idx
    ELSE IF ch_idx < 0 /\ ch_idx >= -NUM_CHANNELS THEN ch_idx + NUM_CHANNELS
    ELSE -1

ch_idx_of(msg) ==
    LET c == get(msg, "channel", 0) IN IF c >= NUM_CHANNELS THEN 0 ELSE c

\* scaled = min_val + (value / 127.0) * (max_val - min_val), kept as the
\* exact numerator over 127.
scaled127(value, min_val, max_val) == 127 * min_val + value * (max_val - min_val)

_process_cc_mut(ch, cc, value) ==
    IF cc \in DOMAIN CC_MAP
    THEN <<Call("audio", ch, "set_param",
                <<CC_MAP[cc].param, scaled127(value, CC_MAP[cc].min, CC_MAP[cc].max)>>)>>
    ELSE IF cc = 120
    THEN <<Call("audio", ch, "all_notes_off", <<>>)>>
    ELSE <<>>

_process_cc(ch, cc, value) ==
    IF cc \in DOMAIN CC_MAP
    THEN <<Call("audio", ch, "set_param",
                <<CC_MAP[cc].param, scaled127(value, CC_MAP[cc].min, CC_MAP[cc].max)>>)>>
    ELSE IF cc = 120 \/ cc = 123
    THEN <<Call("audio", ch, "all_notes_off", <<>>)>>
    ELSE <<>>

note_on_mut(ch, msg) ==
    IF "velocity" \notin DOMAIN msg THEN Outcome("KeyError", <<>>)
    ELSE IF msg.velocity >= 0
    THEN IF "note" \notin DOMAIN msg THEN Outcome("KeyError", <<>>)
         ELSE Outcome("", <<Call("audio", ch, "note_on", <<msg.note, msg.velocity>>)>>)
    ELSE IF "note" \notin DOMAIN msg THEN Outcome("KeyError", <<>>)
         ELSE Outcome("", <<Call("audio", ch, "note_off", <<msg.note>>)>>)

note_on(ch, msg) ==
    IF "velocity" \notin DOMAIN msg THEN Outcome("KeyError", <<>>)
    ELSE IF msg.velocity > 0
    THEN IF "note" \notin DOMAIN msg THEN Outcome("KeyError", <<>>)
         ELSE Outcome("", <<Call("audio", ch, "note_on", <<msg.note, msg.velocity>>)>>)
    ELSE IF "note" \notin DOMAIN msg THEN Outcome("KeyError", <<>>)
         ELSE Outcome("", <<Call("audio", ch, "note_off", <<msg.note>>)>>)

_process_midi(msg) ==
    LET msg_type == get(msg, "type", "None")
        ch == index(ch_idx_of(msg))
    IN  IF ch = -1 THEN Outcome("IndexError", <<>>)
        ELSE IF msg_type = "note_on" THEN note_on(ch, msg)
        ELSE IF msg_type = "note_off"
        THEN IF "note" \notin DOMAIN msg THEN Outcome("KeyError", <<>>)
             ELSE Outcome("", <<Call("audio", ch, "note_off", <<msg.note>>)>>)
        ELSE IF msg_type = "control_change"
        THEN IF "control" \notin DOMAIN msg \/ "value" \notin DOMAIN msg
             THEN Outcome("KeyError", <<>>)
             ELSE Outcome("", _process_cc(ch, msg.control, msg.value))
        ELSE Outcome("", <<>>)

\* --------------------------------------------------------- envelope
\* synth/dsp/envelope.py. Times are integers counting half milliseconds, so
\* that a time under _MIN_TIME other than 0 exists; levels are fixed-point
\* numbers in which ONE stands for 1.0, so the threshold 1e-5 of the release
\* is Threshold. A sample count n over a rate of t half-milliseconds is the
\* fraction (n * PerSecond) / (t * SAMPLE_RATE).
SAMPLE_RATE == 44100
BUFFER_SIZE == 256
CONTROL_RATE_DIVIDER == 16
_MIN_TIME == 2
PerSecond == 2 * 1000
ONE == 10 ^ 6
Threshold == ONE \div (10 ^ 5)

\* A render of fewer samples than a buffer, ending in a partial control block.
ShortBlock == 24
\* Number of renders of ShortBlock samples in one behaviour.
MaxShort == 1
\* Renders stop once the envelope has spent this many samples in one state.
MaxSamples == 1024

max(a, b) == IF a >= b THEN a ELSE b

RECURSIVE GCD(_, _)
GCD(a, b) == IF b = 0 THEN a ELSE GCD(b, a % b)

\* A number of samples times PerSecond and a rate are both multiples of
\* Common, which is divided out before multiplying.
Common == GCD(PerSecond, SAMPLE_RATE)

\* x * num / den rounded down, and rounded up, for such num and den > 0.
MulDown(x, num, den) == (x * (num \div Common)) \div (den \div Common)
MulUp(x, num, den) ==
    (x * (num \div Common) + (den \div Common) - 1) \div (den \div Common)

\* ADSR.__init__; exc is the exception a call on the object ended with.
ADSR(attack, decay, sustain, release) ==
    [attack |-> attack, decay |-> decay, sustain |-> sustain,
     release |-> release, _state |-> "idle", _level |-> 0,
     _samples_in_state |-> 0, exc |-> ""]

gate_on_mut(self) ==
    [self EXCEPT !._state = "attack", !._level = 0, !._samples_in_state = 0]
gate_on(self) ==
    [self EXCEPT !._state = "attack", !._samples_in_state = 0]

gate_off_mut(self) ==
    [self EXCEPT !._state = "release", !._samples_in_state = 0]
gate_off(self) ==
    IF self._state # "idle"
    THEN [self EXCEPT !._state = "release", !._samples_in_state = 0]
    ELSE self

is_active(self) == self._state # "idle"

\* "max(t, _MIN_TIME) * SAMPLE_RATE", in samples times half-milliseconds
rate_mut(t) == t * SAMPLE_RATE
rate_of(t) == max(t, _MIN_TIME) * SAMPLE_RATE

ZeroDivision(self) == [self EXCEPT !.exc = "ZeroDivisionError"]

\* "self._level -= self._level * n_samples / rate" and the test that ends the
\* release. In double precision the decrement is far above the resolution of
\* the level, which therefore falls at every step; the fixed-point decrement
\* is rounded up to keep that.
release_step_mut(s, n_samples, rate) ==
    [s EXCEPT !._level = @ - MulUp(@, n_samples * PerSecond, rate)]
release_step(s, n_samples, rate) ==
    LET level == s._level - MulUp(s._level, n_samples * PerSecond, rate)
    IN  IF level < Threshold
        THEN [s EXCEPT !._level = 0, !._state = "idle", !._samples_in_state = 0]
        ELSE [s EXCEPT !._level = level]

\* "self._level -= (1.0 - self.sustain) * n_samples / rate" and the test that
\* ends the decay.
decay_step_mut(s, n_samples, rate) ==
    [s EXCEPT !._level =
        @ - MulDown(ONE - s.sustain, n_samples * PerSecond, rate)]
decay_step(s, n_samples, rate) ==
    LET level == s._level
                 - MulDown(ONE - s.sustain, n_samples * PerSecond, rate)
    IN  IF level <= s.sustain
        THEN [s EXCEPT !._level = s.sustain, !._state = "sustain",
                       !._samples_in_state = 0]
        ELSE [s EXCEPT !._level = level]

\* ADSR._advance(n_samples)
_advance(self, n_samples) ==
    LET s == [self EXCEPT !._samples_in_state = @ + n_samples]
    IN  CASE s._state = "attack" ->
               LET rate == rate_of(s.attack)
                   level == s._level + MulDown(ONE, n_samples * PerSecond, rate)
               IN  IF rate = 0 THEN ZeroDivision(s)
                   ELSE IF level >= ONE
                   THEN [s EXCEPT !._level = ONE, !._state = "decay",
                                  !._samples_in_state = 0]
                   ELSE [s EXCEPT !._level = level]
          [] s._state = "decay" ->
               LET rate == rate_of(s.decay)
               IN  IF rate = 0 THEN ZeroDivision(s)
                   ELSE decay_step(s, n_samples, rate)
          [] s._state = "sustain" -> [s EXCEPT !._level = s.sustain]
          [] s._state = "release" ->
               LET rate == rate_of(s.release)
               IN  IF rate = 0 THEN ZeroDivision(s)
                   ELSE release_step(s, n_samples, rate)
          [] OTHER -> s

\* The loop of ADSR.render over its control blocks, from block i on. (The
\* envelope after a block is drawn from a singleton set, which makes it a
\* value computed once.)
RECURSIVE advance_blocks(_, _, _, _)
advance_blocks(self, i, n_blocks, remainder) ==
    IF i >= n_blocks + (IF remainder # 0 THEN 1 ELSE 0) \/ self.exc # ""
    THEN self
    ELSE LET block_size == IF i < n_blocks THEN CONTROL_RATE_DIVIDER
                                           ELSE remainder
         IN  CHOOSE after \in
                 {advance_blocks(s, i + 1, n_blocks, remainder) :
                      s \in {_advance(self, block_size)}} : TRUE

\* ADSR.render(n_samples): the envelope it leaves behind
ADSR_render_mut(self, n_samples) == advance_blocks(self, 0, 1, 0)
ADSR_render(self, n_samples) ==
    advance_blocks(self, 0, n_samples \div CONTROL_RATE_DIVIDER,
                   n_samples % CONTROL_RATE_DIVIDER)

\* ADSR.reset()
reset_mut(self) ==
    [self EXCEPT !._state = "idle", !._samples_in_state = 0]
reset(self) ==
    [self EXCEPT !._state = "idle", !._level = 0, !._samples_in_state = 0]

\* -------------------------------------------------------- oscillator
\* synth/dsp/oscillator.py. Frequencies are whole Hz, semitone and detune
\* stay at their initial 0, and pitch_mod holds whole octaves, so that
\* every frequency is a multiple of 1/8 Hz; the phase counts in units of
\* 1 / (8 * SAMPLE_RATE) of a cycle, PhaseOne of them being the phase 1.0.
PhaseOne == 8 * SAMPLE_RATE

\* Length up to which every pitch_mod array is drawn.
MaxMod == 2

\* Oscillator.__init__
Oscillator == [octave |-> 0, level |-> ONE, phase |-> 0]

\* 2.0 ** k for k >= 0
RECURSIVE Pow2(_)
Pow2(k) == IF k = 0 THEN 1 ELSE 2 * Pow2(k - 1)

\* "freq * (2.0 ** self.octave)", in quarters of a Hz
pitch(self, freq) == freq * Pow2(self.octave + 2)

\* "increments": f * 2 ** (pitch_mod / 12) / SAMPLE_RATE for every sample, or
\* f / SAMPLE_RATE n_samples times when pitch_mod is None (written <<>>)
increments(f, n_samples, pitch_mod) ==
    IF pitch_mod # <<>>
    THEN [j \in DOMAIN pitch_mod |-> f * Pow2(pitch_mod[j] \div 12 + 1)]
    ELSE [j \in 1 .. n_samples |-> f * 2]

\* a[lo] + ... + a[hi], by halves
RECURSIVE SumOf(_, _, _)
SumOf(a, lo, hi) ==
    IF lo > hi THEN 0
    ELSE IF lo = hi THEN a[lo]
    ELSE LET mid == (lo + hi) \div 2
         IN  SumOf(a, lo, mid) + SumOf(a, mid + 1, hi)

\* "np.cumsum(increments)[-1]": the sum of all the increments
cumulative_last(inc) == SumOf(inc, 1, Len(inc))

\* Oscillator.render(freq, n_samples, pitch_mod): the oscillator afterwards.
\* (The increments are drawn from a singleton set, which makes the array a
\* value computed once.)
Oscillator_render_mut(self, freq, n_samples, pitch_mod) ==
    CHOOSE after \in
        {[self EXCEPT !.phase = self.phase + cumulative_last(inc)] :
            inc \in {increments(pitch(self, freq), n_samples, pitch_mod)}} : TRUE
Oscillator_render(self, freq, n_samples, pitch_mod) ==
    IF self.level <= 0
    THEN self
    ELSE CHOOSE after \in
             {[self EXCEPT
                  !.phase = (self.phase + cumulative_last(inc)) % PhaseOne] :
                 inc \in {increments(pitch(self, freq), n_samples, pitch_mod)}}
             : TRUE

\* A sample of the returned buffer: the wavetable's value at a phase, linearly
\* interpolated, times a level. The table's values are not computed.
Sample(phase, level) == [table_at |-> phase, times |-> level]

\* A sample of np.zeros
Zero == Sample(0, 0)

\* "np.cumsum(a)" over a[lo .. hi], by halves
RECURSIVE cumsum(_, _, _)
cumsum(a, lo, hi) ==
    IF lo = hi
    THEN <<a[lo]>>
    ELSE CHOOSE c \in
             {left \o [j \in 1 .. Len(right) |-> right[j] + left[Len(left)]] :
                 left \in {cumsum(a, lo, (lo + hi) \div 2)},
                 right \in {cumsum(a, (lo + hi) \div 2 + 1, hi)}} : TRUE

\* "phases": the phase at each sample, before its increment is added
phases(self, inc) ==
    CHOOSE ph \in
        {[j \in DOMAIN inc |->
             (self.phase + cumulative[j] - inc[j]) % PhaseOne] :
            cumulative \in {cumsum(inc, 1, Len(inc))}} : TRUE

\* Oscillator.render(freq, n_samples, pitch_mod): the buffer returned
render_out_mut(self, freq, n_samples, pitch_mod) ==
    [j \in 1 .. (n_samples - 1) |-> Zero]
render_out(self, freq, n_samples, pitch_mod) ==
    IF self.level <= 0
    THEN [j \in 1 .. n_samples |-> Zero]
    ELSE CHOOSE out \in
             {[j \in DOMAIN ph |-> Sample(ph[j], self.level)] :
                 ph \in {phases(self, increments(pitch(self, freq),
                                                 n_samples, pitch_mod))}} : TRUE

\* Oscillator.reset_phase()
reset_phase(self) == [self EXCEPT !.phase = 0]

\* ------------------------------------------------------------ filter
\* synth/dsp/filter.py. Cutoffs are whole Hz. Samples, taps, the resonance
\* and the coefficients g and G are fixed-point numbers, FOne standing for
\* 1.0; products and quotients are rounded down.
FOne == 10 ^ 3

\* "SAMPLE_RATE * 0.49" and the 20.0 of np.clip
CutoffMax == (SAMPLE_RATE * 49) \div 100
CutoffMin == 20

\* The ladder implementations that filter.py itself defines.
Backends == {"numba", "python"}

min(a, b) == IF a <= b THEN a ELSE b

Mul(a, b) == (a * b) \div FOne
Div(a, b) == (a * FOne) \div b

\* "np.tan(np.pi * fc / sr)" to three decimals, at the cutoffs drawn
tan_pi(fc) ==
    CASE fc = 10 -> 1
      [] fc = CutoffMin -> 1
      [] fc = SAMPLE_RATE \div 4 -> FOne
      [] fc = CutoffMax -> 31821

\* "g": f / (2.0 * sr), of the f each implementation computes
g_of(backend, fc) ==
    IF backend = "numba"
    THEN IF fc < CutoffMax THEN tan_pi(fc) ELSE (2 * 49 * FOne) \div (2 * 100)
    ELSE tan_pi(min(fc, CutoffMax))

\* One pass of the loop body from "G = g / (1.0 + g)" on: the taps
\* afterwards and the sample written to out[i].
ladder_sample(s, x, g, resonance) ==
    LET G  == Div(g, FOne + g)
        r  == resonance * 4
        S  == Mul(Mul(Mul(G, G), G), s[1]) + Mul(Mul(G, G), s[2])
              + Mul(G, s[3]) + s[4]
        u  == Div(x - Mul(r, S), FOne + Mul(Mul(Mul(Mul(r, G), G), G), G))
        v0 == Mul(u - s[1], G)
        l0 == v0 + s[1]
        v1 == Mul(l0 - s[2], G)
        l1 == v1 + s[2]
        v2 == Mul(l1 - s[3], G)
        l2 == v2 + s[3]
        v3 == Mul(l2 - s[4], G)
        l3 == v3 + s[4]
    IN  [state |-> <<l0 + v0, l1 + v1, l2 + v2, l3 + v3>>, lp |-> l3]

\* _moog_ladder_process(samples, cutoff_buf, resonance, state, sr) of a
\* backend, from sample i on: the array returned and the taps written back.
RECURSIVE _moog_ladder_process(_, _, _, _, _, _, _)
_moog_ladder_process(backend, samples, cutoff_buf, resonance, state, i, out) ==
    IF i > Len(samples)
    THEN [out |-> out, state |-> state]
    ELSE \* bound once, as a value
         CHOOSE r \in
             {_moog_ladder_process(backend, samples, cutoff_buf, resonance,
                                   step.state, i + 1, Append(out, step.lp)) :
                 step \in {ladder_sample(state, samples[i],
                                        g_of(backend, cutoff_buf[i]),
                                        resonance)}} : TRUE

\* MoogFilter.__init__
MoogFilter == [cutoff |-> 8000, resonance |-> 0, _state |-> <<0, 0, 0, 0>>]

\* np.clip(x, lo, hi)
clip(x, lo, hi) == IF x < lo THEN lo ELSE IF x > hi THEN hi ELSE x

\* "cutoff_buf" of MoogFilter.render; cutoff_mod None is written <<>>
cutoff_buf(self, n, cutoff_mod) ==
    IF cutoff_mod # <<>>
    THEN [j \in DOMAIN cutoff_mod |->
             clip(self.cutoff + cutoff_mod[j], CutoffMin, CutoffMax)]
    ELSE [j \in 1 .. n |-> min(self.cutoff, CutoffMax)]

\* MoogFilter.render(samples, cutoff_mod) on a backend: the array returned
\* and the filter afterwards.
MoogFilter_render(backend, self, samples, cutoff_mod) ==
    LET done == _moog_ladder_process(
                    backend, samples,
                    cutoff_buf(self, Len(samples), cutoff_mod),
                    self.resonance, self._state, 1, <<>>)
    IN  [out |-> done.out, self |-> [self EXCEPT !._state = done.state]]

\* MoogFilter.reset()
MoogFilter_reset_mut(self) == self
MoogFilter_reset(self) == [self EXCEPT !._state = <<0, 0, 0, 0>>]

\* The voice allocator of a Channel (spec section 4.9), of which a voice's amp
\* envelope is the ADSR above. MAX_VOICES is 8 in the program.
MAX_VOICES == 2
\* note_on of a new note stops once the age counter is here.
MaxAge == 3
\* The allocator stops rendering once a voice has spent this many samples in
\* one state of its envelope.
MaxVoiceSamples == 512

Notes == 60 .. (60 + MAX_VOICES)

\* A voice before its first note; its envelope has the shortest times.
Voice == [age |-> 0,
          amp_env |-> ADSR(_MIN_TIME, _MIN_TIME, ONE \div 2, _MIN_TIME)]

\* "Owns MAX_VOICES voices"
VoicePool_mut == [i \in 1 .. (MAX_VOICES + 1) |-> Voice]
VoicePool == [i \in 1 .. MAX_VOICES |-> Voice]

free_voices(vs) == {i \in DOMAIN vs : ~is_active(vs[i].amp_env)}

Lowest(S) == CHOOSE i \in S : \A j \in S : i <= j

\* The voice to steal: the releasing voice of lowest level, else the oldest
\* voice; ties go to the lowest index.
steal(vs) ==
    LET releasing == {i \in DOMAIN vs : vs[i].amp_env._state = "release"}
    IN  IF releasing # {}
        THEN Lowest({i \in releasing : \A j \in releasing :
                        vs[i].amp_env._level <= vs[j].amp_env._level})
        ELSE Lowest({i \in DOMAIN vs : \A j \in DOMAIN vs :
                        vs[i].age <= vs[j].age})

active_voice_count(vs) ==
    Cardinality({i \in DOMAIN vs : is_active(vs[i].amp_env)})

\* What the allocator's methods leave alone.
allocFrame ==
    <<midi_queue, engineVars, cbVars, ghostQ, pushedDuring, current_channel,
      lastCalls, lastDispatch, envVars, keyVars, oscVars, filterVars>>

Without(map, v) == [n \in {m \in DOMAIN map : map[m] # v} |-> map[n]]

\* Allocator.note_on(note, vel)
alloc_note_on ==
    /\ UNCHANGED allocFrame
    /\ \E note \in Notes :
        IF note \in DOMAIN note_map
        THEN /\ voices' = [voices EXCEPT ![note_map[note]].amp_env = gate_on(@)]
             /\ stole' = FALSE
             /\ UNCHANGED <<note_map, global_age>>
        ELSE /\ global_age < MaxAge
             /\ \E v \in (IF free_voices(voices) # {} THEN free_voices(voices)
                                                       ELSE {steal(voices)}) :
                   /\ voices' = [voices EXCEPT
                                    ![v] = [age |-> global_age + 1,
                                            amp_env |-> gate_on(@.amp_env)]]
                   /\ note_map' = [n \in DOMAIN Without(note_map, v) \cup {note}
                                      |-> IF n = note THEN v ELSE note_map[n]]
             /\ stole' = (free_voices(voices) = {})
             /\ global_age' = global_age + 1

\* Allocator.note_off(note)
alloc_note_off ==
    /\ \E note \in Notes :
          IF note \in DOMAIN note_map
          THEN /\ voices' = [voices EXCEPT ![note_map[note]].amp_env = gate_off(@)]
               /\ note_map' = [n \in DOMAIN note_map \ {note} |-> note_map[n]]
          ELSE UNCHANGED <<voices, note_map>>
    /\ UNCHANGED <<global_age, stole, allocFrame>>

\* Allocator.all_notes_off()
alloc_all_notes_off ==
    /\ voices' = [i \in DOMAIN voices |->
                     [voices[i] EXCEPT !.amp_env = gate_off(@)]]
    /\ note_map' = <<>>
    /\ UNCHANGED <<global_age, stole, allocFrame>>

\* Allocator.render(n): every voice whose amp envelope is not idle renders
alloc_render ==
    /\ \A i \in DOMAIN voices : voices[i].amp_env._samples_in_state < MaxVoiceSamples
    /\ \E vs \in {voices} :
          voices' = [i \in DOMAIN vs |->
                       IF is_active(vs[i].amp_env)
                       THEN [vs[i] EXCEPT !.amp_env = ADSR_render(@, BUFFER_SIZE)]
                       ELSE vs[i]]
    /\ UNCHANGED <<note_map, global_age, stole, allocFrame>>

\* AudioEngine.__init__ and SynthGUI.__init__
EngineInit ==
    /\ midi_queue = <<>>
    /\ stream = "None"
    /\ running = FALSE
    /\ dev_open = FALSE
    /\ cb_pc = "idle"
    /\ cb_i = 0
    /\ cb_result = "none"
    /\ main_pc = "idle"
    /\ stop_closed = FALSE
    /\ current_channel = 0
    /\ lastCalls = <<>>
    /\ lastDispatch = <<>>
    /\ nextSeq = 0
    /\ dispatched = <<>>
    /\ atBegin = {}
    /\ pushedDuring = FALSE
    /\ _held_keys = <<>>
    /\ _pending_releases = {}
    /\ kbd_octave = 4
    /\ key_op = [op |-> "init", key |-> "", was_pending |-> FALSE]
    /\ _mouse_note = None
    /\ mouse_pressed = FALSE
    /\ on_channel = [src \in {"mouse", "a", "w"} |-> None]

\* The envelopes before any call, built from the given times and sustain.
EnvInit(attack, decay, sustain, release) ==
    /\ amp_env = ADSR(attack, decay, sustain, release)
    /\ ref_env = ADSR(max(attack, _MIN_TIME), max(decay, _MIN_TIME), sustain,
                      max(release, _MIN_TIME))
    /\ env_op = "init"
    /\ env_from = "idle"
    /\ short_renders = 0
    /\ held_samples = -1

\* The allocator of a new Channel.
AllocInit ==
    /\ voices = VoicePool
    /\ note_map = <<>>
    /\ global_age = 0
    /\ stole = FALSE

\* An Oscillator with the given octave, level and phase, no call made yet.
OscInit(octave, level, phase) ==
    /\ osc = [Oscillator EXCEPT
                 !.octave = octave, !.level = level, !.phase = phase]
    /\ osc_op = "init"
    /\ osc_inc_sum = 0
    /\ osc_n_samples = 0
    /\ osc_out = <<>>

\* A MoogFilter per implementation with the given cutoff and resonance, no
\* call made yet.
FilterInit(cutoff, resonance) ==
    /\ moog = [b \in Backends |->
                  [MoogFilter EXCEPT !.cutoff = cutoff, !.resonance = resonance]]
    /\ moog_op = "init"
    /\ moog_samples = <<>>
    /\ moog_cutoff_buf = <<>>
    /\ moog_out = [b \in Backends |-> <<>>]
    /\ moog_renders = 0
    /\ moog_from = [b \in Backends |-> MoogFilter._state]
    /\ moog_reset_from = [b \in Backends |-> MoogFilter._state]

\* ADSR's defaults: attack=0.01, decay=0.1, sustain=0.7, release=0.3
Init ==
    /\ EngineInit
    /\ EnvInit(20, 200, (7 * ONE) \div 10, 600)
    /\ AllocInit
    /\ OscInit(0, ONE, 0)
    /\ FilterInit(MoogFilter.cutoff, MoogFilter.resonance)


\* ------------------------------------------------------- MIDI thread
\* The MIDI input thread appends a parsed message to engine.midi_queue.
midi_push(M, bound) ==
    /\ nextSeq < bound
    /\ \E m \in M :
          midi_queue' = append(midi_queue, [seq |-> nextSeq + 1, msg |-> m])
    /\ nextSeq' = nextSeq + 1
    /\ pushedDuring' = (cb_pc # "idle")
    /\ lastCalls' = <<>>
    /\ lastDispatch' = <<>>
    /\ UNCHANGED <<otherVars, engineVars, cbVars, current_channel, dispatched>>

\* ------------------------------------------------------ audio thread
QueueSeqs == {midi_queue[i].seq : i \in DOMAIN midi_queue}

\* sounddevice invokes the callback of an active stream.
callback_begin ==
    /\ stream = "active"
    /\ cb_pc = "idle"
    /\ cb_pc' = "drain"
    /\ atBegin' = QueueSeqs
    /\ pushedDuring' = FALSE
    /\ lastCalls' = <<>>
    /\ lastDispatch' = <<>>
    /\ UNCHANGED <<otherVars, midi_queue, engineVars, cb_i, cb_result, current_channel, ghostQ>>

\* One turn of "while self.midi_queue": popleft and _process_midi. An
\* exception of _process_midi leaves the callback.
drain_step ==
    /\ cb_pc = "drain"
    /\ midi_queue # <<>>
    /\ LET p == popleft(midi_queue)
           r == _process_midi(p.item.msg)
       IN  /\ midi_queue' = p.rest
           /\ lastDispatch' = <<p.item>>
           /\ dispatched' = Append(dispatched, p.item.seq)
           /\ lastCalls' = r.calls
           /\ IF r.raised = ""
              THEN UNCHANGED <<cb_pc, cb_result>>
              ELSE cb_pc' = "idle" /\ cb_result' = "raised"
    /\ UNCHANGED <<otherVars, engineVars, cb_i, atBegin, current_channel, nextSeq, pushedDuring>>

\* The loop test finds the queue empty: on to "out = np.zeros(frames)".
drain_done ==
    /\ cb_pc = "drain"
    /\ midi_queue = <<>>
    /\ cb_pc' = "render"
    /\ cb_i' = 0
    /\ lastCalls' = <<>>
    /\ lastDispatch' = <<>>
    /\ UNCHANGED <<otherVars, midi_queue, engineVars, cb_result, atBegin, current_channel,
                   ghostQ, pushedDuring>>

\* "out += ch.render(frames)": the call is entered ...
render_enter ==
    /\ cb_pc = "render"
    /\ cb_i < NUM_CHANNELS
    /\ cb_pc' = "rendering"
    /\ lastCalls' = <<Call("audio", cb_i, "render", <<>>)>>
    /\ lastDispatch' = <<>>
    /\ UNCHANGED <<otherVars, midi_queue, engineVars, cb_i, cb_result, atBegin,
                   current_channel, ghostQ, pushedDuring>>

\* ... and returns.
render_return ==
    /\ cb_pc = "rendering"
    /\ cb_pc' = "render"
    /\ cb_i' = cb_i + 1
    /\ lastCalls' = <<>>
    /\ lastDispatch' = <<>>
    /\ UNCHANGED <<otherVars, midi_queue, engineVars, cb_result, atBegin, current_channel,
                   ghostQ, pushedDuring>>

\* Master volume, tanh, peak level, and the write to outdata.
write_block ==
    /\ cb_pc = "render"
    /\ cb_i = NUM_CHANNELS
    /\ cb_pc' = "idle"
    /\ cb_result' = "written"
    /\ lastCalls' = <<>>
    /\ lastDispatch' = <<>>
    /\ UNCHANGED <<otherVars, midi_queue, engineVars, cb_i, atBegin, current_channel,
                   ghostQ, pushedDuring>>

\* ------------------------------------------------------- main thread
\* AudioEngine.start(). The constructor or stream.start() may fail (device
\* start failure). Callers start an engine that holds no stream.
start ==
    /\ main_pc = "idle"
    /\ stream = "None"
    /\ running' = TRUE
    /\ \E outcome \in {"ok", "open_failed", "start_failed"} :
          /\ stream' = CASE outcome = "ok" -> "active"
                         [] outcome = "start_failed" -> "inactive"
                         [] OTHER -> "None"
          /\ dev_open' = (outcome # "open_failed")
    /\ lastCalls' = <<>>
    /\ lastDispatch' = <<>>
    /\ UNCHANGED <<otherVars, midi_queue, cbVars, main_pc, stop_closed, current_channel,
                   ghostQ, pushedDuring>>

stop_next_mut(s) == "stop_off"

\* Where stop() goes after "self._running = False".
stop_next(s) == IF s # "None" THEN "stop_stream" ELSE "stop_off"

stop_begin ==
    /\ main_pc = "idle"
    /\ running' = FALSE
    /\ main_pc' = stop_next(stream)
    /\ stop_closed' = (stream # "None")
    /\ lastCalls' = <<>>
    /\ lastDispatch' = <<>>
    /\ UNCHANGED <<otherVars, midi_queue, stream, dev_open, cbVars, current_channel,
                   ghostQ, pushedDuring>>

\* self._stream.stop() returns once the running callback has finished.
stop_stream ==
    /\ main_pc = "stop_stream"
    /\ cb_pc = "idle"
    /\ stream' = "stopped"
    /\ main_pc' = "stop_close"
    /\ lastCalls' = <<>>
    /\ lastDispatch' = <<>>
    /\ UNCHANGED <<otherVars, midi_queue, running, dev_open, stop_closed, cbVars,
                   current_channel, ghostQ, pushedDuring>>

\* self._stream.close(); self._stream = None
stop_close ==
    /\ main_pc = "stop_close"
    /\ stream' = "None"
    /\ dev_open' = FALSE
    /\ main_pc' = "stop_off"
    /\ lastCalls' = <<>>
    /\ lastDispatch' = <<>>
    /\ UNCHANGED <<otherVars, midi_queue, running, stop_closed, cbVars, current_channel,
                   ghostQ, pushedDuring>>

\* for ch in self.channels: ch.all_notes_off()
stop_off ==
    /\ main_pc = "stop_off"
    /\ main_pc' = "idle"
    /\ lastCalls' = [i \in 1 .. NUM_CHANNELS |->
                        Call("stop", i - 1, "all_notes_off", <<>>)]
    /\ lastDispatch' = <<>>
    /\ UNCHANGED <<otherVars, midi_queue, stream, running, dev_open, stop_closed, cbVars,
                   current_channel, ghostQ, pushedDuring>>

\* ------------------------------------------------------------- GUI
guiFrame == <<midi_queue, engineVars, cbVars, ghostQ, pushedDuring>>

\* SynthGUI._play_note(note, velocity=100)
_play_note ==
    /\ main_pc = "idle"
    /\ \E note \in {60} :
          lastCalls' = <<Call("gui", current_channel, "note_on", <<note, 100>>)>>
    /\ lastDispatch' = <<>>
    /\ UNCHANGED <<otherVars, guiFrame, current_channel>>

\* SynthGUI._stop_note(note)
_stop_note ==
    /\ main_pc = "idle"
    /\ \E note \in {60} :
          lastCalls' = <<Call("gui", current_channel, "note_off", <<note>>)>>
    /\ lastDispatch' = <<>>
    /\ UNCHANGED <<otherVars, guiFrame, current_channel>>

\* SynthGUI._set_param(param, value)
_set_param ==
    /\ main_pc = "idle"
    /\ \E value \in {200} :
          lastCalls' = <<Call("gui", current_channel, "set_param",
                              <<"filter.cutoff", value>>)>>
    /\ lastDispatch' = <<>>
    /\ UNCHANGED <<otherVars, guiFrame, current_channel>>

\* SynthGUI._on_patch_select: channel.set_patch(patch)
_on_patch_select ==
    /\ main_pc = "idle"
    /\ lastCalls' = <<Call("gui", current_channel, "set_patch", <<"Bass Voog">>)>>
    /\ lastDispatch' = <<>>
    /\ UNCHANGED <<otherVars, guiFrame, current_channel>>

\* SynthGUI._on_close: all_notes_off on every channel
_on_close ==
    /\ main_pc = "idle"
    /\ lastCalls' = [i \in 1 .. NUM_CHANNELS |->
                        Call("gui", i - 1, "all_notes_off", <<>>)]
    /\ lastDispatch' = <<>>
    /\ UNCHANGED <<otherVars, guiFrame, current_channel>>

KeyOp(op, key, was_pending) ==
    [op |-> op, key |-> key, was_pending |-> was_pending]

\* SynthGUI._select_channel(ch_idx): _stop_note for every held key, on the
\* channel that is current until line 844
_select_channel ==
    /\ main_pc = "idle"
    /\ \E ch_idx \in Channels : current_channel' = ch_idx
    /\ lastCalls' = [i \in DOMAIN _held_keys |->
                        Call("gui", current_channel, "note_off",
                             <<_held_keys[i].note>>)]
    /\ _held_keys' = <<>>
    /\ key_op' = KeyOp("select_channel", "", FALSE)
    /\ on_channel' = [src \in DOMAIN on_channel |->
                         IF src = "mouse" THEN on_channel[src] ELSE None]
    /\ lastDispatch' = <<>>
    /\ UNCHANGED <<dspVars, _pending_releases, kbd_octave, guiFrame,
                   _mouse_note, mouse_pressed>>

\* -------------------------------------------------------- PC keyboard
\* Two of KEY_MAP's keys.
KEY_MAP == [key \in {"a", "w"} |-> IF key = "a" THEN 0 ELSE 1]

\* event.char.lower() of the events drawn: two mapped keys and one that
\* is not in KEY_MAP.
Keys == {"a", "w", "z"}

held(key) == \E i \in DOMAIN _held_keys : _held_keys[i].key = key

held_note(key) ==
    _held_keys[CHOOSE i \in DOMAIN _held_keys : _held_keys[i].key = key].note

\* dict.pop(key)
pop(d, key) == SelectSeq(d, LAMBDA e : e.key # key)

keyFrame ==
    <<dspVars, guiFrame, current_channel, _mouse_note, mouse_pressed>>

\* SynthGUI._on_key_press(event)
_on_key_press_mut ==
    /\ main_pc = "idle"
    /\ \E key \in Keys :
          /\ key_op' = KeyOp("key_press", key, key \in _pending_releases)
          /\ IF key \in DOMAIN KEY_MAP /\ ~held(key)
             THEN LET note == (kbd_octave + 1) * 12 + KEY_MAP[key]
                  IN  /\ _held_keys' = Append(_held_keys,
                                              [key |-> key, note |-> note])
                      /\ lastCalls' = <<Call("gui", current_channel, "note_on",
                                             <<note, 100>>)>>
                      /\ on_channel' =
                             [on_channel EXCEPT ![key] = current_channel]
             ELSE /\ lastCalls' = <<>>
                  /\ UNCHANGED <<_held_keys, on_channel>>
    /\ lastDispatch' = <<>>
    /\ UNCHANGED <<keyFrame, kbd_octave, _pending_releases>>
_on_key_press ==
    /\ main_pc = "idle"
    /\ \E key \in Keys :
          /\ key_op' = KeyOp("key_press", key, key \in _pending_releases)
          /\ IF key \notin DOMAIN KEY_MAP
             THEN /\ lastCalls' = <<>>
                  /\ UNCHANGED <<_held_keys, _pending_releases, on_channel>>
             ELSE IF key \in _pending_releases
             THEN /\ _pending_releases' = _pending_releases \ {key}
                  /\ lastCalls' = <<>>
                  /\ UNCHANGED <<_held_keys, on_channel>>
             ELSE IF ~held(key)
             THEN LET note == (kbd_octave + 1) * 12 + KEY_MAP[key]
                  IN  /\ _held_keys' = Append(_held_keys,
                                              [key |-> key, note |-> note])
                      /\ lastCalls' = <<Call("gui", current_channel, "note_on",
                                             <<note, 100>>)>>
                      /\ on_channel' =
                             [on_channel EXCEPT ![key] = current_channel]
                      /\ UNCHANGED _pending_releases
             ELSE /\ lastCalls' = <<>>
                  /\ UNCHANGED <<_held_keys, _pending_releases, on_channel>>
    /\ lastDispatch' = <<>>
    /\ UNCHANGED <<keyFrame, kbd_octave>>

\* SynthGUI._on_key_release(event): starts the 30 ms timer
_on_key_release ==
    /\ main_pc = "idle"
    /\ \E key \in Keys :
          /\ key_op' = KeyOp("key_release", key, key \in _pending_releases)
          /\ _pending_releases' =
                 IF held(key) /\ key \notin _pending_releases
                 THEN _pending_releases \cup {key}
                 ELSE _pending_releases
    /\ lastCalls' = <<>>
    /\ lastDispatch' = <<>>
    /\ UNCHANGED <<keyFrame, kbd_octave, _held_keys, on_channel>>

\* SynthGUI._do_key_release(key): the timer of a pending release fires
_do_key_release ==
    /\ main_pc = "idle"
    /\ \E key \in _pending_releases :
          /\ key_op' = KeyOp("do_key_release", key, TRUE)
          /\ _pending_releases' = _pending_releases \ {key}
          /\ IF held(key)
             THEN /\ _held_keys' = pop(_held_keys, key)
                  /\ lastCalls' = <<Call("gui", current_channel, "note_off",
                                         <<held_note(key)>>)>>
                  /\ on_channel' = [on_channel EXCEPT ![key] = None]
             ELSE /\ lastCalls' = <<>>
                  /\ UNCHANGED <<_held_keys, on_channel>>
    /\ lastDispatch' = <<>>
    /\ UNCHANGED <<keyFrame, kbd_octave>>

\* SynthGUI._oct_down()
_oct_down ==
    /\ main_pc = "idle"
    /\ kbd_octave' = IF kbd_octave > 0 THEN kbd_octave - 1 ELSE kbd_octave
    /\ key_op' = KeyOp("oct_down", "", FALSE)
    /\ lastCalls' = <<>>
    /\ lastDispatch' = <<>>
    /\ UNCHANGED <<keyFrame, _held_keys, _pending_releases, on_channel>>

\* SynthGUI._oct_up()
_oct_up ==
    /\ main_pc = "idle"
    /\ kbd_octave' = IF kbd_octave < 7 THEN kbd_octave + 1 ELSE kbd_octave
    /\ key_op' = KeyOp("oct_up", "", FALSE)
    /\ lastCalls' = <<>>
    /\ lastDispatch' = <<>>
    /\ UNCHANGED <<keyFrame, _held_keys, _pending_releases, on_channel>>

\* The PC keyboard, the octave buttons and the channel buttons.
NextKeys ==
    \/ _on_key_press
    \/ _on_key_release
    \/ _do_key_release
    \/ _oct_down
    \/ _oct_up
    \/ _select_channel

SpecKeys == Init /\ [][NextKeys]_vars

\* ------------------------------------------------- on-screen keyboard
\* _note_at_pos(e.x, e.y): None off the keys, else the note of the key that
\* _draw_keys drew there from kbd_octave; the positions drawn are those of
\* the two lowest keys.
NotesAtPos == {None} \cup {kbd_octave * 12 + 12 + semi : semi \in {0, 1}}

mouseFrame ==
    <<dspVars, guiFrame, current_channel, _held_keys, _pending_releases,
      kbd_octave>>

\* SynthGUI._on_kbd_mouse_down(e)
_on_kbd_mouse_down ==
    /\ main_pc = "idle"
    /\ ~mouse_pressed
    /\ mouse_pressed' = TRUE
    /\ \E note \in NotesAtPos :
          IF note # None
          THEN /\ _mouse_note' = note
               /\ lastCalls' = <<Call("gui", current_channel, "note_on",
                                      <<note, 100>>)>>
               /\ on_channel' = [on_channel EXCEPT !["mouse"] = current_channel]
          ELSE /\ lastCalls' = <<>>
               /\ UNCHANGED <<_mouse_note, on_channel>>
    /\ key_op' = KeyOp("mouse_down", "", FALSE)
    /\ lastDispatch' = <<>>
    /\ UNCHANGED mouseFrame

\* SynthGUI._on_kbd_mouse_drag(e)
_on_kbd_mouse_drag ==
    /\ main_pc = "idle"
    /\ mouse_pressed
    /\ \E note \in NotesAtPos :
          IF note # _mouse_note
          THEN /\ lastCalls' =
                     (IF _mouse_note # None
                      THEN <<Call("gui", current_channel, "note_off",
                                  <<_mouse_note>>)>>
                      ELSE <<>>)
                     \o (IF note # None
                         THEN <<Call("gui", current_channel, "note_on",
                                     <<note, 100>>)>>
                         ELSE <<>>)
               /\ _mouse_note' = note
               /\ on_channel' =
                     [on_channel EXCEPT
                         !["mouse"] = IF note # None THEN current_channel
                                                     ELSE None]
          ELSE /\ lastCalls' = <<>>
               /\ UNCHANGED <<_mouse_note, on_channel>>
    /\ key_op' = KeyOp("mouse_drag", "", FALSE)
    /\ lastDispatch' = <<>>
    /\ UNCHANGED <<mouseFrame, mouse_pressed>>

\* SynthGUI._on_kbd_mouse_up(e)
_on_kbd_mouse_up ==
    /\ main_pc = "idle"
    /\ mouse_pressed
    /\ mouse_pressed' = FALSE
    /\ IF _mouse_note # None
       THEN /\ lastCalls' = <<Call("gui", current_channel, "note_off",
                                   <<_mouse_note>>)>>
            /\ _mouse_note' = None
            /\ on_channel' = [on_channel EXCEPT !["mouse"] = None]
       ELSE /\ lastCalls' = <<>>
            /\ UNCHANGED <<_mouse_note, on_channel>>
    /\ key_op' = KeyOp("mouse_up", "", FALSE)
    /\ lastDispatch' = <<>>
    /\ UNCHANGED mouseFrame

\* The keys pressed, the octaves and the channels selected where the PC
\* keyboard and the on-screen keyboard are played together.
PlayKeys == {"a", "z"}
PlayOctaves == {4, 5}
PlayChannels == {0, 1}

\* The PC keyboard, the on-screen keyboard, the octave buttons and the
\* channel buttons.
NextPlay ==
    \/ _on_key_press /\ key_op'.key \in PlayKeys
    \/ _on_key_release /\ key_op'.key \in PlayKeys
    \/ _do_key_release
    \/ _oct_down /\ kbd_octave' \in PlayOctaves
    \/ _oct_up /\ kbd_octave' \in PlayOctaves
    \/ _select_channel /\ current_channel' \in PlayChannels
    \/ _on_kbd_mouse_down
    \/ _on_kbd_mouse_drag
    \/ _on_kbd_mouse_up

SpecPlay == Init /\ [][NextPlay]_vars

Next ==
    \/ midi_push(CoreMsgs, MaxPush)
    \/ callback_begin
    \/ drain_step
    \/ drain_done
    \/ render_enter
    \/ render_return
    \/ write_block
    \/ start
    \/ stop_begin
    \/ stop_stream
    \/ stop_close
    \/ stop_off
    \/ _play_note
    \/ _stop_note
    \/ _set_param
    \/ _on_patch_select
    \/ _on_close
    \/ _select_channel

Spec == Init /\ [][Next]_vars

\* The engine and the MIDI thread alone, one message of any shape.
NextDispatch ==
    \/ midi_push(Msgs, MaxWide)
    \/ callback_begin
    \/ drain_step
    \/ drain_done
    \/ render_enter
    \/ render_return
    \/ write_block
    \/ start
    \/ stop_begin
    \/ stop_stream
    \/ stop_close
    \/ stop_off

SpecDispatch == Init /\ [][NextDispatch]_vars

\* ------------------------------------------------- envelope alone
\* One ADSR driven by its four methods, with ref_env given the same calls.
AttackTimes == {0, 1, 3, 5}
DecayTimes == {0, 6, 8}
SustainLevels == {0, ONE \div 2, ONE}
ReleaseTimes == {0, 1, 4}
RenderSizes == {BUFFER_SIZE, ShortBlock}

engineFrame == <<midi_queue, engineVars, cbVars, ghostQ, pushedDuring,
                 current_channel, lastCalls, lastDispatch, keyVars>>
envFrame == <<engineFrame, allocVars, oscVars, filterVars>>

InitEnv ==
    /\ EngineInit
    /\ \E a \in AttackTimes, d \in DecayTimes, s \in SustainLevels,
          r \in ReleaseTimes : EnvInit(a, d, s, r)
    /\ AllocInit
    /\ OscInit(0, ONE, 0)
    /\ FilterInit(MoogFilter.cutoff, MoogFilter.resonance)

env_gate_on ==
    /\ amp_env.exc = ""
    /\ amp_env' = gate_on(amp_env)
    /\ ref_env' = gate_on(ref_env)
    /\ env_op' = "gate_on"
    /\ env_from' = amp_env._state
    /\ UNCHANGED short_renders
    /\ held_samples' = IF amp_env._state = "idle" THEN 0 ELSE -1
    /\ UNCHANGED envFrame

env_gate_off ==
    /\ amp_env.exc = ""
    /\ amp_env' = gate_off(amp_env)
    /\ ref_env' = gate_off(ref_env)
    /\ env_op' = "gate_off"
    /\ env_from' = amp_env._state
    /\ UNCHANGED short_renders
    /\ held_samples' = -1
    /\ UNCHANGED envFrame

env_render ==
    /\ amp_env.exc = ""
    /\ amp_env._samples_in_state < MaxSamples
    /\ \E n_samples \in RenderSizes, self \in {amp_env}, ref \in {ref_env} :
          /\ n_samples = ShortBlock => short_renders < MaxShort
          /\ short_renders' = short_renders + (IF n_samples = ShortBlock THEN 1 ELSE 0)
          /\ amp_env' = ADSR_render(self, n_samples)
          /\ ref_env' = ADSR_render(ref, n_samples)
          /\ held_samples' = IF held_samples >= 0 /\ n_samples = BUFFER_SIZE
                              THEN held_samples + n_samples ELSE -1
    /\ env_op' = "render"
    /\ env_from' = amp_env._state
    /\ UNCHANGED envFrame

env_reset ==
    /\ amp_env.exc = ""
    /\ amp_env' = reset(amp_env)
    /\ ref_env' = reset(ref_env)
    /\ env_op' = "reset"
    /\ env_from' = amp_env._state
    /\ UNCHANGED short_renders
    /\ held_samples' = -1
    /\ UNCHANGED envFrame

NextEnv ==
    \/ env_gate_on
    \/ env_gate_off
    \/ env_render
    \/ env_reset

SpecEnv == InitEnv /\ [][NextEnv]_vars

\* The envelope with rendering that does not stop: the audio callback renders
\* a buffer every BUFFER_SIZE / SAMPLE_RATE seconds for as long as the stream
\* runs.
InitRelease ==
    /\ EngineInit
    /\ \E s \in SustainLevels, r \in ReleaseTimes : EnvInit(0, 0, s, r)
    /\ AllocInit
    /\ OscInit(0, ONE, 0)
    /\ FilterInit(MoogFilter.cutoff, MoogFilter.resonance)

SpecEnvFair == InitRelease /\ [][NextEnv]_vars /\ WF_vars(env_render)

\* ------------------------------------------------ oscillator alone
Freqs == {SAMPLE_RATE \div 10, SAMPLE_RATE \div 2}
Octaves == {-1, 0, 1}
Levels == {0, ONE}
Semitones == {-12, 0, 12}
\* the phase an oscillator is found at: 0.0 and 0.375
StartPhases == {0, 3 * SAMPLE_RATE}

\* The pitch_mod arguments of a render of n_samples: None, every array up to
\* MaxMod samples, the array of an octave up beyond.
PitchMods(n_samples) ==
    {<<>>} \cup (IF n_samples <= MaxMod
                 THEN [1 .. n_samples -> Semitones]
                 ELSE {[j \in 1 .. n_samples |-> 12]})

oscFrame == <<engineFrame, envVars, allocVars, filterVars>>

InitOsc ==
    /\ EngineInit
    /\ EnvInit(20, 200, (7 * ONE) \div 10, 600)
    /\ AllocInit
    /\ \E octave \in Octaves, level \in Levels, phase \in StartPhases :
          OscInit(octave, level, phase)
    /\ FilterInit(MoogFilter.cutoff, MoogFilter.resonance)

osc_render ==
    /\ \E freq \in Freqs, n_samples \in {MaxMod, BUFFER_SIZE}, self \in {osc} :
          \E pitch_mod \in PitchMods(n_samples) :
             /\ osc' = Oscillator_render(self, freq, n_samples, pitch_mod)
             /\ osc_out' = render_out(self, freq, n_samples, pitch_mod)
             /\ osc_n_samples' = n_samples
             /\ \E inc \in {increments(pitch(self, freq), n_samples, pitch_mod)} :
                   osc_inc_sum' = SumOf(inc, 1, Len(inc))
    /\ osc_op' = "render"
    /\ UNCHANGED oscFrame

osc_reset_phase ==
    /\ osc' = reset_phase(osc)
    /\ osc_op' = "reset_phase"
    /\ osc_inc_sum' = 0
    /\ UNCHANGED <<osc_n_samples, osc_out>>
    /\ UNCHANGED oscFrame

NextOsc ==
    \/ osc_render
    \/ osc_reset_phase

SpecOsc == InitOsc /\ [][NextOsc]_vars

\* --------------------------------------------------- filter alone
\* Number of renders in one behaviour.
MaxFilterRenders == 2
\* A filter is rendered while its taps are within -MaxTap.0 .. MaxTap.0 (at
\* full resonance with the cutoff at the top of the range they grow
\* without limit).
MaxTap == 10

\* FilterParams.cutoff as a patch may hold it: below 20 Hz, the two ends of
\* the range, a quarter of the sample rate, and above the range.
FilterCutoffs == {10, CutoffMin, SAMPLE_RATE \div 4, CutoffMax, 2 * CutoffMax}
Resonances == {0, FOne \div 2, FOne}
SampleValues == {0, FOne}
FilterSamples == [{1} -> SampleValues] \cup [{1, 2} -> SampleValues]
CutoffModValues == {-CutoffMax, 0, CutoffMax}

\* The cutoff_mod arguments of a render of n samples: None and every array
CutoffMods(n) == {<<>>} \cup [1 .. n -> CutoffModValues]

filterFrame == <<engineFrame, envVars, allocVars, oscVars>>

InitFilter ==
    /\ EngineInit
    /\ EnvInit(20, 200, (7 * ONE) \div 10, 600)
    /\ AllocInit
    /\ OscInit(0, ONE, 0)
    /\ \E cutoff \in FilterCutoffs, resonance \in Resonances :
          FilterInit(cutoff, resonance)

moog_render ==
    /\ moog_renders < MaxFilterRenders
    /\ \A b \in Backends : \A i \in 1 .. 4 :
          /\ moog[b]._state[i] <= MaxTap * FOne
          /\ moog[b]._state[i] >= -(MaxTap * FOne)
    /\ \E samples \in FilterSamples :
          \E cutoff_mod \in CutoffMods(Len(samples)) :
             /\ \E done \in {[b \in Backends |->
                                  MoogFilter_render(b, moog[b], samples,
                                                    cutoff_mod)]} :
                   /\ moog' = [b \in Backends |-> done[b].self]
                   /\ moog_out' = [b \in Backends |-> done[b].out]
             /\ moog_samples' = samples
             /\ moog_cutoff_buf' =
                    cutoff_buf(moog["python"], Len(samples), cutoff_mod)
    /\ moog_op' = "render"
    /\ moog_renders' = moog_renders + 1
    /\ moog_from' = [b \in Backends |-> moog[b]._state]
    /\ UNCHANGED moog_reset_from
    /\ UNCHANGED filterFrame

moog_reset ==
    /\ moog' = [b \in Backends |-> MoogFilter_reset(moog[b])]
    /\ moog_op' = "reset"
    /\ moog_from' = [b \in Backends |-> moog[b]._state]
    /\ moog_reset_from' = [b \in Backends |-> moog[b]._state]
    /\ UNCHANGED <<moog_samples, moog_cutoff_buf, moog_out, moog_renders>>
    /\ UNCHANGED filterFrame

NextFilter ==
    \/ moog_render
    \/ moog_reset

SpecFilter == InitFilter /\ [][NextFilter]_vars

\* ------------------------------------------------ allocator alone
NextAlloc ==
    \/ alloc_note_on
    \/ alloc_note_off
    \/ alloc_all_notes_off
    \/ alloc_render

SpecAlloc == Init /\ [][NextAlloc]_vars

\* ------------------------------------------------------------ claims
Range(s) == {s[i] : i \in DOMAIN s}

\* The last step was a drain_step whose _process_midi raised.
Raised == lastDispatch # <<>> /\ cb_pc = "idle"

InRender == cb_pc \in {"render", "rendering"}

StopCalls ==
    [i \in 1 .. NUM_CHANNELS |-> Call("stop", i - 1, "all_notes_off", <<>>)]

C2_NoGuiCallDuringRender ==
    \A i \in DOMAIN lastCalls :
        lastCalls[i].by = "gui" =>
            ~(cb_pc = "rendering" /\ cb_i = lastCalls[i].ch)

C4_FifoDispatch ==
    \A i, j \in DOMAIN dispatched : i < j => dispatched[i] < dispatched[j]

C4_Witness ==
    /\ cb_pc = "render"
    /\ Cardinality(atBegin) = 2
    /\ atBegin \subseteq Range(dispatched)
    /\ cb_result = "written"

\* C5: a drained all_notes_off, set_param or set_patch event addressed to
\* channel c makes the call of that name on channel c.
C5_TypedEventsReachChannel ==
    \A i \in DOMAIN lastDispatch :
        LET m == lastDispatch[i].msg IN
        ("type" \in DOMAIN m /\ m.type \in {"all_notes_off", "set_param", "set_patch"})
            => /\ Len(lastCalls) = 1
               /\ lastCalls[1].op = m.type
               /\ lastCalls[1].ch = m.channel

\* C6: no callback ends by raising.
C6_CallbackNeverRaises == cb_result # "raised"

\* C7: an event whose channel field is outside 0..NUM_CHANNELS-1 (and that
\* misses no field) raises nothing and makes calls on channel 0 only.
C7_BadChannelToZeroOrDropped ==
    \A i \in DOMAIN lastDispatch :
        LET m == lastDispatch[i].msg IN
        ("channel" \in DOMAIN m /\ m.channel \notin Channels /\ "note" \in DOMAIN m
            /\ "velocity" \in DOMAIN m)
            => /\ ~Raised
               /\ \A k \in DOMAIN lastCalls : lastCalls[k].ch = 0

\* The note_off event for the channel and note of m.
NoteOffFor(m) ==
    IF "channel" \in DOMAIN m
    THEN [type |-> "note_off", channel |-> m.channel, note |-> m.note]
    ELSE [type |-> "note_off", note |-> m.note]

\* C8: a note_on with velocity 0 does what the note_off for the same channel
\* and note does: note_off(note) is called on the channel, note_on is not.
C8_NoteOnZeroIsNoteOff ==
    \A i \in DOMAIN lastDispatch :
        LET m == lastDispatch[i].msg IN
        ("type" \in DOMAIN m /\ m.type = "note_on" /\ "note" \in DOMAIN m
            /\ "velocity" \in DOMAIN m /\ m.velocity = 0)
            => /\ Raised = (_process_midi(NoteOffFor(m)).raised # "")
               /\ lastCalls = _process_midi(NoteOffFor(m)).calls
               /\ \A k \in DOMAIN lastCalls : lastCalls[k].op # "note_on"
               /\ ("channel" \in DOMAIN m /\ m.channel \in Channels)
                     => lastCalls = <<Call("audio", m.channel, "note_off", <<m.note>>)>>

C8_Witness ==
    /\ lastDispatch # <<>>
    /\ lastDispatch[1].msg =
           [type |-> "note_on", channel |-> 2, note |-> 60, velocity |-> 0]
    /\ lastCalls = <<Call("audio", 2, "note_off", <<60>>)>>

\* C9: control_change 120 or 123 calls all_notes_off on the addressed
\* channel; a control number outside the CC table (and not 120/123) makes no
\* call; one in the table calls set_param(param, min + value/127*(max-min)),
\* which is min for value 0 and max for value 127. Values are carried as
\* numerators over 127.
C9_ControlChange ==
    \A i \in DOMAIN lastDispatch :
        LET m == lastDispatch[i].msg IN
        ("type" \in DOMAIN m /\ m.type = "control_change" /\ "control" \in DOMAIN m
            /\ "value" \in DOMAIN m /\ m.channel \in Channels)
            => /\ ~Raised
               /\ m.control \in {120, 123}
                     => lastCalls = <<Call("audio", m.channel, "all_notes_off", <<>>)>>
               /\ m.control \notin (DOMAIN CC_MAP \cup {120, 123})
                     => lastCalls = <<>>
               /\ m.control \in DOMAIN CC_MAP
                     => LET e == CC_MAP[m.control] IN
                        /\ Len(lastCalls) = 1
                        /\ lastCalls[1].ch = m.channel
                        /\ lastCalls[1].op = "set_param"
                        /\ lastCalls[1].args[1] = e.param
                        /\ lastCalls[1].args[2] =
                               127 * e.min + m.value * (e.max - e.min)
                        /\ m.value = 0 => lastCalls[1].args[2] = 127 * e.min
                        /\ m.value = 127 => lastCalls[1].args[2] = 127 * e.max

C9_Witness ==
    /\ lastDispatch # <<>>
    /\ lastDispatch[1].msg =
           [type |-> "control_change", channel |-> 1, control |-> 123, value |-> 127]
    /\ lastCalls = <<Call("audio", 1, "all_notes_off", <<>>)>>

\* C10: stop() calls all_notes_off on every channel, and only once the stream
\* it found, if any, has been stopped and closed and forgotten.
C10_StopSilencesAfterClose ==
    /\ [](main_pc = "stop_off" => (stream = "None" /\ ~dev_open /\ cb_pc = "idle"))
    /\ []((\E i \in DOMAIN lastCalls : lastCalls[i].by = "stop")
            => (lastCalls = StopCalls /\ stream = "None" /\ ~dev_open))
    /\ [][(main_pc # "idle" /\ main_pc' = "idle") => lastCalls' = StopCalls]_vars

C10_Witness ==
    /\ lastCalls = StopCalls
    /\ stop_closed
    /\ cb_result = "written"

\* ---------------------------------------------------- envelope claims
\* Samples rendered since the last gate_off, times PerSecond, have reached
\* max(release, _MIN_TIME) * SAMPLE_RATE.
ReleaseTimeRendered ==
    amp_env._samples_in_state * PerSecond >= rate_of(amp_env.release)

\* C12: once max(release, _MIN_TIME) * SAMPLE_RATE samples have been rendered
\* after a gate_off with no gate_on in between, the envelope is idle with
\* level 0: it is never found still releasing after that many samples.
C12_IdleAfterReleaseTime ==
    /\ (env_op = "render" /\ amp_env._state = "release") => ~ReleaseTimeRendered
    /\ amp_env._state = "idle" => amp_env._level = 0

\* C13: a releasing envelope that keeps being rendered leaves the release
\* (for idle, or for attack on a gate_on), and an idle envelope stays idle
\* until a gate_on.
C13_ReleaseEndsIdle ==
    /\ (amp_env._state = "release") ~> (amp_env._state \in {"idle", "attack"})
    /\ [][(amp_env._state = "release" /\ env_op' \in {"render", "gate_off"})
             => amp_env'._state \in {"release", "idle"}]_vars
    /\ [][(amp_env._state = "idle" /\ env_op' # "gate_on")
             => amp_env'._state = "idle"]_vars

C13_Witness ==
    /\ env_op = "render"
    /\ env_from = "release"
    /\ amp_env._state = "idle"
    /\ amp_env.release = 4

\* C14: gate_on sets the state to attack from any state and leaves the level
\* where it was.
C14_GateOnKeepsLevel ==
    [][env_op' = "gate_on"
         => (amp_env'._state = "attack" /\ amp_env'._level = amp_env._level)]_vars

C14_Witness ==
    /\ env_op = "gate_on"
    /\ env_from = "release"
    /\ amp_env._state = "attack"
    /\ amp_env._level > 0
    /\ amp_env._level < ONE \div 2

\* C15: gate_off on an attacking, decaying, sustaining or releasing envelope
\* sets the state to release and keeps the level; on an idle envelope it
\* changes nothing, the envelope staying idle at level 0.
C15_GateOff ==
    [][env_op' = "gate_off"
         => IF amp_env._state = "idle"
            THEN amp_env' = amp_env /\ amp_env'._state = "idle"
                 /\ amp_env'._level = 0
            ELSE amp_env'._state = "release"
                 /\ amp_env'._level = amp_env._level]_vars

C15_Witness ==
    /\ env_op = "gate_off"
    /\ env_from = "decay"
    /\ amp_env._state = "release"
    /\ amp_env._level > 0
    /\ amp_env._level < ONE

\* C16: is_active() is false exactly in state idle, an idle envelope has level
\* 0, and idle is entered only by a render of a releasing envelope or by
\* reset.
C16_IdleIsZero ==
    /\ [](is_active(amp_env) <=> amp_env._state # "idle")
    /\ [](~is_active(amp_env) => amp_env._level = 0)
    /\ [][(amp_env._state # "idle" /\ amp_env'._state = "idle")
             => \/ env_op' = "reset"
                \/ env_op' = "render" /\ amp_env._state = "release"]_vars

C16_Witness ==
    /\ env_op = "render"
    /\ env_from = "release"
    /\ ~is_active(amp_env)
    /\ amp_env._level = 0
    /\ amp_env.release = 0

\* C17: an envelope whose attack, decay or release is below _MIN_TIME is, after
\* every call, in the state and at the level of the envelope built with
\* _MIN_TIME in its place, and no call raises.
C17_BelowMinTimeIsMinTime ==
    /\ amp_env._state = ref_env._state
    /\ amp_env._level = ref_env._level
    /\ amp_env._samples_in_state = ref_env._samples_in_state
    /\ amp_env.exc = ""

C17_Witness ==
    /\ env_op = "render"
    /\ amp_env.attack = 0
    /\ amp_env.release = 1
    /\ amp_env._state = "release"
    /\ amp_env._level > 0

\* The buffers rendered since the gate_on from idle amount to at least
\* rate / PerSecond + slack samples.
HeldFor(rate, slack) ==
    /\ held_samples >= 0
    /\ env_op = "render"
    /\ held_samples * PerSecond >= rate + slack * PerSecond

InSustain == amp_env._state = "sustain" /\ amp_env._level = amp_env.sustain

\* C18 as stated: with the gate held since a gate_on from idle and whole
\* buffers rendered, the envelope is in sustain at the sustain level once
\* (attack + decay) * SAMPLE_RATE samples have been rendered.
C18_SustainWithinAttackDecay ==
    HeldFor((amp_env.attack + amp_env.decay) * SAMPLE_RATE, 0) => InSustain

\* C18, amended: ... once (max(attack, _MIN_TIME) + max(decay, _MIN_TIME)) *
\* SAMPLE_RATE + 2 * CONTROL_RATE_DIVIDER samples have been rendered.
C18_SustainWithinControlSteps ==
    HeldFor(rate_of(amp_env.attack) + rate_of(amp_env.decay),
            2 * CONTROL_RATE_DIVIDER) => InSustain

C18_Witness ==
    /\ HeldFor(rate_of(amp_env.attack) + rate_of(amp_env.decay),
               2 * CONTROL_RATE_DIVIDER)
    /\ held_samples = 2 * BUFFER_SIZE
    /\ amp_env.attack = 3
    /\ amp_env.decay = 8
    /\ InSustain

C19_RepeatKeepsNote ==
    /\ [][key_op'.op = "key_release"
            => (lastCalls' = <<>> /\ _held_keys' = _held_keys)]_vars
    /\ [][(key_op'.op = "key_press" /\ key_op'.was_pending)
            => /\ lastCalls' = <<>>
               /\ _held_keys' = _held_keys
               /\ key_op'.key \notin _pending_releases']_vars
    /\ [][key_op'.op = "key_press"
            => \A i \in DOMAIN lastCalls' : lastCalls'[i].op # "note_off"]_vars
    /\ [][(key_op'.op = "do_key_release" /\ held(key_op'.key))
            => /\ lastCalls' = <<Call("gui", current_channel, "note_off",
                                      <<held_note(key_op'.key)>>)>>
               /\ \A i \in DOMAIN _held_keys' :
                     _held_keys'[i].key # key_op'.key]_vars

C19_Witness ==
    /\ key_op = KeyOp("key_press", "a", TRUE)
    /\ held("a")
    /\ _pending_releases = {}
    /\ lastCalls = <<>>

PhaseInRange == 0 <= osc.phase /\ osc.phase < PhaseOne

\* C20 as stated: the phase is always in [0, 1), and after each render it is
\* the phase before plus the sum of the increments, mod 1.
C20_PhaseAccumulates ==
    /\ []PhaseInRange
    /\ [][osc_op' = "render"
            => osc'.phase = (osc.phase + osc_inc_sum') % PhaseOne]_vars

\* C20, amended: the phase is always in [0, 1); after a render on an
\* oscillator whose level is above 0 it is the phase before plus the sum of
\* the increments, mod 1, and after a render at level 0 or below it is the
\* phase before.
C20_PhaseAccumulatesWhenAudible ==
    /\ []PhaseInRange
    /\ [][osc_op' = "render"
            => osc'.phase = IF osc.level > 0
                            THEN (osc.phase + osc_inc_sum') % PhaseOne
                            ELSE osc.phase]_vars

C20_Witness ==
    /\ osc_op = "render"
    /\ osc.level > 0
    /\ osc_inc_sum > PhaseOne
    /\ osc.phase > 0
    /\ osc.octave = -1

\* ------------------------------------------------------------ C21
\* A sample whose value is 0.0: something times a level of 0
IsZero(sample) == sample.times = 0

\* C21: a render on an oscillator whose level is 0 returns n_samples
\* samples, each of them 0, and leaves the oscillator, its phase included,
\* as it was - for every frequency, n_samples and pitch_mod drawn.
C21_SilentRenderKeepsPhase ==
    [][(osc_op' = "render" /\ osc.level = 0)
          => /\ Len(osc_out') = osc_n_samples'
             /\ \A j \in DOMAIN osc_out' : IsZero(osc_out'[j])
             /\ osc' = osc]_vars

\* A render at level 0 of a whole buffer, on a phase that is not 0 and with
\* increments that would have moved it.
C21_Witness ==
    /\ osc_op = "render"
    /\ osc.level = 0
    /\ osc_n_samples = BUFFER_SIZE
    /\ Len(osc_out) = BUFFER_SIZE
    /\ osc_inc_sum % PhaseOne # 0
    /\ osc.phase = 3 * SAMPLE_RATE

\* ------------------------------------------------------------ C22
\* Every cutoff the last render passed to the ladder is in range.
CutoffsInRange ==
    \A j \in DOMAIN moog_cutoff_buf :
        CutoffMin <= moog_cutoff_buf[j] /\ moog_cutoff_buf[j] <= CutoffMax

\* C22: every cutoff that MoogFilter.render passes to the ladder lies in
\* [20, SAMPLE_RATE * 0.49], whatever the base cutoff, with a cutoff_mod
\* buffer and without one.
C22_CutoffBufClamped == moog_op = "render" => CutoffsInRange

\* ------------------------------------------------------------ C23
ZeroTaps == <<0, 0, 0, 0>>

AllZero(buffer) == \A j \in DOMAIN buffer : buffer[j] = 0

\* C23: a render of an all-zero input that starts with the four taps at 0
\* and uses cutoffs in [20, SAMPLE_RATE * 0.49] returns only zeros, one per
\* input sample, and leaves the taps at 0, for every resonance drawn and on
\* either implementation; after a reset the four taps are 0.
C23_ZeroInZeroOut ==
    /\ [](\A b \in Backends :
            (/\ moog_op = "render"
             /\ AllZero(moog_samples)
             /\ CutoffsInRange
             /\ moog_from[b] = ZeroTaps)
            => /\ Len(moog_out[b]) = Len(moog_samples)
               /\ AllZero(moog_out[b])
               /\ moog[b]._state = ZeroTaps)
    /\ [](moog_op = "reset" => \A b \in Backends : moog[b]._state = ZeroTaps)

\* A reset found taps that were not 0, and after it two zero samples went
\* through the filter at full resonance with the cutoff at the top of the
\* range.
C23_Witness ==
    /\ moog_op = "render"
    /\ moog_samples = <<0, 0>>
    /\ \A b \in Backends :
          /\ moog_reset_from[b] # ZeroTaps
          /\ moog_from[b] = ZeroTaps
          /\ moog[b].resonance = FOne
    /\ moog_cutoff_buf = <<CutoffMax, CutoffMin>>

\* ------------------------------------------------------------ C25
\* C25: from the same taps and resonance, with every cutoff of the buffer
\* in [20, SAMPLE_RATE * 0.49] (the upper end included), the Numba and the
\* pure-Python ladder return the same array and leave the same taps.
C25_BackendsAgree ==
    (/\ moog_op = "render"
     /\ CutoffsInRange
     /\ moog_from["numba"] = moog_from["python"])
    => /\ moog_out["numba"] = moog_out["python"]
       /\ moog["numba"]._state = moog["python"]._state

\* ------------------------------------------------------------ C24
\* C24: whatever gate_on, gate_off, render and reset calls were made on an
\* envelope whose sustain is in [0, 1], its level is in [0, 1]; in decay
\* the level is not below sustain, and it is exactly 1.0 when the attack
\* has just ended; in sustain the level is exactly sustain; in release the
\* level is not below 0.
C24_LevelInRange ==
    /\ 0 <= amp_env._level /\ amp_env._level <= ONE
    /\ amp_env._state = "decay"
          => /\ amp_env._level >= amp_env.sustain
             /\ amp_env._samples_in_state = 0 => amp_env._level = ONE
    /\ amp_env._state = "sustain" => amp_env._level = amp_env.sustain
    /\ amp_env._state = "release" => amp_env._level >= 0

\* One render took the envelope from attack through the whole decay into
\* sustain, at a sustain level strictly between 0 and 1.
C24_Witness ==
    /\ env_op = "render"
    /\ env_from = "attack"
    /\ amp_env._state = "sustain"
    /\ amp_env._level = amp_env.sustain
    /\ amp_env.sustain = ONE \div 2

\* ------------------------------------------------------------ C27
\* C27: every key with a pending delayed release is a held key, after any
\* key presses, key releases, timer firings and channel selections; and a
\* KeyPress of a mapped key that is not held sends note_on.
C27_PendingAreHeld ==
    /\ [](\A key \in _pending_releases : held(key))
    /\ [][(/\ key_op'.op = "key_press"
           /\ key_op'.key \in DOMAIN KEY_MAP
           /\ ~held(key_op'.key))
            => \E i \in DOMAIN lastCalls' : lastCalls'[i].op = "note_on"]_vars

\* ------------------------------------------------------------ C26
\* One of the calls is note_off for the note on the channel.
NoteOffSent(calls, ch, note) ==
    \E i \in DOMAIN calls : calls[i] = Call("gui", ch, "note_off", <<note>>)

\* C26: when the GUI stops keeping a note as held - the note of a computer
\* key (at the delayed release, or at a channel selection) or the note under
\* the mouse (at the button's release, or when it is dragged off the key) -
\* the same step sends note_off for that note on the channel its note_on
\* went to, whatever the octave and the selected channel have become.
C26_NoteOnMatched ==
    [][/\ \A key \in DOMAIN KEY_MAP :
             (held(key) /\ \A i \in DOMAIN _held_keys' :
                                _held_keys'[i].key # key)
             => NoteOffSent(lastCalls', on_channel[key], held_note(key))
       /\ (_mouse_note # None /\ _mouse_note' # _mouse_note)
             => NoteOffSent(lastCalls', on_channel["mouse"], _mouse_note)]_vars

====
